---- MODULE Spec2Model ----
(***************************************************************************)
(* The chat session of AgentPreview (src/unnamed/part_000): onSend, the    *)
(* SSE decoder handleMessages/readStream, the transcript messageList, the  *)
(* orchestration flags and the agent-thinking poller.                      *)
(*                                                                         *)
(* Text is a sequence of one-character strings.  The bytes of a stream are *)
(* a sequence of tokens: "NL" is the newline, "WS" a whitespace character  *)
(* that trim() removes, "P" the six characters `data: `, and every other   *)
(* token is the text of one JSON payload (see Json).                       *)
(***************************************************************************)
EXTENDS Integers, Sequences, FiniteSets, TLC

\* ------------------------------------------------------------------ bounds
MaxSends == 2
\* Lines the server writes on the stream of SpecStream, and on all streams of Spec.
MaxRecords == 3
MaxSessionRecords == 2
\* fetchOrchestrationStatus calls that may await their response at one time.
MaxFetches == 2
\* fetchAgentThinking calls that may be awaiting their response at once
MaxPolls == 2
\* characters of a content handed to preprocessContent, and annotations with it
MaxContent == 3
MaxAnnotations == 2
MaxPanelRequests == 3

\* ------------------------------------------------------------- text, JSON
Sends == 1..MaxSends

GenericError == <<"An error occurred.">>

\* The payload texts the server may write after `data: `.
Payloads == {"Da", "Db", "Cc", "Cx", "End", "Run", "Ee", "E0", "Bad"}

\* JSON.parse of one payload text: the event object, or parsed |-> FALSE when
\* JSON.parse throws.  error = TRUE when the object has a truthy error field,
\* message its error.message (<<>> when absent or empty).
Json(tok) ==
  CASE tok = "Da" -> [parsed |-> TRUE, error |-> FALSE, message |-> <<>>, type |-> "delta",
                      content |-> <<"a">>, annotations |-> <<>>]
    [] tok = "Db" -> [parsed |-> TRUE, error |-> FALSE, message |-> <<>>, type |-> "delta",
                      content |-> <<"b">>, annotations |-> <<>>]
    [] tok = "Cc" -> [parsed |-> TRUE, error |-> FALSE, message |-> <<>>,
                      type |-> "completed_message",
                      content |-> <<"c">>, annotations |-> <<>>]
    [] tok = "Cx" -> [parsed |-> TRUE, error |-> FALSE, message |-> <<>>,
                      type |-> "completed_message",
                      content |-> <<"x", "y">>,
                      annotations |-> <<[file_name |-> <<"f">>, text |-> <<"t">>,
                                         start_index |-> 1, end_index |-> 2]>>]
    [] tok = "End" -> [parsed |-> TRUE, error |-> FALSE, message |-> <<>>, type |-> "stream_end",
                       content |-> <<>>, annotations |-> <<>>]
    [] tok = "Run" -> [parsed |-> TRUE, error |-> FALSE, message |-> <<>>, type |-> "thread_run",
                       content |-> <<"r">>, annotations |-> <<>>]
    [] tok = "Ee" -> [parsed |-> TRUE, error |-> TRUE, message |-> <<"e">>, type |-> "",
                      content |-> <<>>, annotations |-> <<>>]
    [] tok = "E0" -> [parsed |-> TRUE, error |-> TRUE, message |-> <<>>, type |-> "",
                      content |-> <<>>, annotations |-> <<>>]
    [] OTHER -> [parsed |-> FALSE, error |-> FALSE, message |-> <<>>, type |-> "",
                 content |-> <<>>, annotations |-> <<>>]

\* String.prototype.slice(from, to) on a text, 0-based, indices clamped.
Clamp(i, n) == IF i < 0 THEN 0 ELSE IF i > n THEN n ELSE i

Slice(text, from, to) ==
  LET f == Clamp(from, Len(text))
      t == Clamp(to, Len(text))
  IN IF f >= t THEN <<>> ELSE SubSeq(text, f + 1, t)

\* String.prototype.trim(): leading and trailing whitespace removed.
RECURSIVE TrimLeft(_)
TrimLeft(text) ==
  IF text # <<>> /\ Head(text) = "WS" THEN TrimLeft(Tail(text)) ELSE text

RECURSIVE TrimRight(_)
TrimRight(text) ==
  IF text # <<>> /\ text[Len(text)] = "WS"
    THEN TrimRight(SubSeq(text, 1, Len(text) - 1)) ELSE text

Trim(text) == TrimRight(TrimLeft(text))

\* buffer.indexOf("\n"), 1-based; 0 when there is none.
IndexOfNL(buffer) ==
  IF \E i \in 1..Len(buffer) : buffer[i] = "NL"
    THEN CHOOSE i \in 1..Len(buffer) :
           buffer[i] = "NL" /\ \A j \in 1..(i - 1) : buffer[j] # "NL"
    ELSE 0

\* JSON.parse(jsonStr): surrounding whitespace is allowed, the rest must be the
\* text of exactly one JSON value.
JsonParse(jsonStr) ==
  LET core == Trim(jsonStr)
  IN IF Len(core) = 1 THEN Json(core[1]) ELSE Json("Bad")

\* Mutant of ApplyAnnotations: the file name is written without brackets.
RECURSIVE ApplyAnnotations_BareName(_, _)
ApplyAnnotations_BareName(content, annotations) ==
  IF annotations = <<>> THEN content
  ELSE LET annotation == annotations[Len(annotations)]
           linkText == IF annotation.file_name # <<>>
                         THEN annotation.file_name
                         ELSE annotation.text
       IN ApplyAnnotations_BareName(
            Slice(content, 0, annotation.start_index) \o linkText
              \o Slice(content, annotation.end_index, Len(content)),
            SubSeq(annotations, 1, Len(annotations) - 1))

\* ------------------------------------------------------ preprocessContent
\* Mutant of ApplyAnnotations: the annotations are applied first to last.
RECURSIVE ApplyAnnotations_Forward(_, _)
ApplyAnnotations_Forward(content, annotations) ==
  IF annotations = <<>> THEN content
  ELSE LET annotation == annotations[1]
           linkText == IF annotation.file_name # <<>>
                         THEN <<"[">> \o annotation.file_name \o <<"]">>
                         ELSE annotation.text
       IN ApplyAnnotations_Forward(
            Slice(content, 0, annotation.start_index) \o linkText
              \o Slice(content, annotation.end_index, Len(content)),
            Tail(annotations))

RECURSIVE ApplyAnnotations(_, _)
ApplyAnnotations(content, annotations) ==
  IF annotations = <<>> THEN content
  ELSE LET annotation == annotations[Len(annotations)]
           linkText == IF annotation.file_name # <<>>
                         THEN <<"[">> \o annotation.file_name \o <<"]">>
                         ELSE annotation.text
       IN ApplyAnnotations(
            Slice(content, 0, annotation.start_index) \o linkText
              \o Slice(content, annotation.end_index, Len(content)),
            SubSeq(annotations, 1, Len(annotations) - 1))

preprocessContent(content, annotations) == ApplyAnnotations(content, annotations)

\* ------------------------------------------------------------- transcript
UserId(s) == [kind |-> "user", send |-> s]
AsstId(s) == [kind |-> "assistant", send |-> s]
OrchId(s) == [kind |-> "orchestration", send |-> s]

\* obj = s marks the element that is the very object `chatItem` of send s (a
\* later write to chatItem.content shows in it); obj = 0 is a copy.
Turn(id, role, content, obj) ==
  [id |-> id, role |-> role, content |-> content, obj |-> obj]

\* chatItem.content = c, seen through every list element that is that object.
SetChatItemContent(ml, s, c) ==
  [i \in 1..Len(ml) |-> IF ml[i].obj = s THEN [ml[i] EXCEPT !.content = c] ELSE ml[i]]

\* ------------------------------------------------------------------ state
VARIABLES
  messageList,              \* useState<IChatItem[]>([])
  isLoadingChatHistory,     \* useState(true); the GET /chat/history is in flight
  isResponding,             \* useState(false)
  isOrchestrationMode,      \* useState(false)
  orchestrationInitialized, \* useState(false)
  showAgentThinking,        \* useState(false)
  isPollingThinking,        \* useState(false)
  agentThinkingInterval,    \* window.agentThinkingInterval (0 = unset/null)
  timers,                   \* the interval timers that are running
  chatContext,              \* the state values the memoised onSend closes over
  send,                     \* one record per onSend call, with handleMessages' locals
  statusFetches,            \* fetchOrchestrationStatus calls awaiting their response
  written,                  \* lines the server has written so far
  agentThinkingMessages,    \* useState<any[]>([])
  polls,                    \* fetchAgentThinking calls awaiting their response
  preprocessArgs,           \* the arguments of a preprocessContent call
  preprocessResult,         \* what that call returned
  panel                     \* the state hooks of OrchestrationPanel and its requests

vars == <<messageList, isLoadingChatHistory, isResponding, isOrchestrationMode, orchestrationInitialized,
          showAgentThinking, isPollingThinking, agentThinkingInterval, timers,
          chatContext, send, statusFetches, written,
          agentThinkingMessages, polls, preprocessArgs, preprocessResult, panel>>

\* The values of the component state that one render's functions see.
Captured ==
  [isOrchestrationMode |-> isOrchestrationMode,
   orchestrationInitialized |-> orchestrationInitialized,
   showAgentThinking |-> showAgentThinking,
   isPollingThinking |-> isPollingThinking]

\* The UI state a synchronous block of code reads and writes.
Ui ==
  [ml |-> messageList, isResponding |-> isResponding,
   isPollingThinking |-> isPollingThinking,
   agentThinkingInterval |-> agentThinkingInterval, timers |-> timers]

\* A closure that is read no more.
NoCapture ==
  [isOrchestrationMode |-> FALSE, orchestrationInitialized |-> FALSE,
   showAgentThinking |-> FALSE, isPollingThinking |-> FALSE]

\* handleMessages' locals start as in its first lines.
NoSend ==
  [pc |-> "idle", cap |-> NoCapture, useOrchestration |-> FALSE, requests |-> <<>>,
   before |-> <<>>, sent |-> <<>>,
   wire |-> <<>>, buffer |-> <<>>, chatItem |-> FALSE, accumulatedContent |-> <<>>,
   isStreaming |-> TRUE, annotations |-> <<>>, handled |-> <<>>,
   scrolls |-> {}]

\* A call that has ended: its locals are dead.
Done == [NoSend EXCEPT !.pc = "done"]

\* A call whose readStream has returned.  What the server wrote and what the
\* decoder handled stay on record.
DoneStream(l) ==
  [NoSend EXCEPT !.pc = "done", !.before = l.before, !.sent = l.sent,
                 !.handled = l.handled, !.scrolls = l.scrolls]

\* No call of preprocessContent has been made.
NoArgs == [content |-> <<>>, annotations |-> <<>>]
NoResult == [returned |-> FALSE, value |-> <<>>]

\* OrchestrationPanel after its first render.  orchestrationStatus is "null" or
\* the orchestration_info.status of the stored object; pending counts the
\* requests in flight and issued all the requests made.
NoPanel ==
  [isOrchestrationMode |-> FALSE, agentIds |-> <<>>, orchestrationStatus |-> "null",
   isInitializing |-> FALSE, message |-> <<>>, orchestrationResult |-> <<>>,
   isProcessing |-> FALSE, error |-> "", success |-> "",
   pending |-> [status |-> 0, initialize |-> 0, chat |-> 0, cleanup |-> 0],
   issued |-> 0]

\* The state after construction, the arguments of preprocessContent apart.
InitSession ==
  /\ messageList = <<>>
  /\ isLoadingChatHistory = TRUE
  /\ isResponding = FALSE
  /\ isOrchestrationMode = FALSE
  /\ orchestrationInitialized = FALSE
  /\ showAgentThinking = FALSE
  /\ isPollingThinking = FALSE
  /\ agentThinkingInterval = 0
  /\ timers = {}
  /\ chatContext = Captured
  /\ send = [s \in Sends |-> NoSend]
  /\ statusFetches = 0
  /\ written = 0
  /\ agentThinkingMessages = <<>>
  /\ polls = 0
  /\ preprocessResult = NoResult
  /\ panel = NoPanel

Init == InitSession /\ preprocessArgs = NoArgs

\* ----------------------------------------------------------------- poller
\* Called from onSend: reads the state values of onSend's own render (cap).
\* The new timer is named after the send that starts it.
startAgentThinkingPolling(s, u, cap) ==
  IF cap.showAgentThinking /\ cap.isOrchestrationMode /\ ~cap.isPollingThinking
    THEN [u EXCEPT !.isPollingThinking = TRUE,
                   !.timers = @ \cup {s},
                   !.agentThinkingInterval = s]
    ELSE u

\* Mutant of stopAgentThinkingPolling: the polling flag is flipped.
stopAgentThinkingPolling_FlipsFlag(u) ==
  [u EXCEPT !.isPollingThinking = ~@,
            !.timers = IF u.agentThinkingInterval # 0
                         THEN @ \ {u.agentThinkingInterval} ELSE @,
            !.agentThinkingInterval = 0]

stopAgentThinkingPolling(u) ==
  [u EXCEPT !.isPollingThinking = FALSE,
            !.timers = IF u.agentThinkingInterval # 0
                         THEN @ \ {u.agentThinkingInterval} ELSE @,
            !.agentThinkingInterval = 0]

stopRespondingAndPolling(u) ==
  stopAgentThinkingPolling([u EXCEPT !.isResponding = FALSE])

\* ------------------------------------------------- transcript operations
createAssistantMessageDiv(s, d) ==
  [d EXCEPT !.ml = Append(@, Turn(AsstId(s), "undefined", <<>>, s)),
            !.chatItem = TRUE,
            !.setMessageListRan = TRUE]

clearAssistantMessage(s, d) ==
  [d EXCEPT !.ml = SetChatItemContent(@, s, <<>>)]

\* chatItem.content = htmlContent; setMessageList(prev => [...prev.slice(0, -1),
\* {...chatItem}]); if (!isStreaming) requestAnimationFrame(scrollIntoView).
\* scrolls: the positions in `handled` of the records whose update requested a
\* scroll.
appendAssistantMessage(s, d, accumulatedContent, isStreaming, annotations) ==
  LET htmlContent == preprocessContent(accumulatedContent, annotations)
      ml1 == SetChatItemContent(d.ml, s, htmlContent)
  IN [d EXCEPT !.ml = SubSeq(ml1, 1, Len(ml1) - 1)
                        \o <<Turn(AsstId(s), "undefined", htmlContent, 0)>>,
               !.setMessageListRan = TRUE,
               !.scrolls = IF isStreaming THEN @ ELSE @ \cup {Len(d.handled)}]

\* ------------------------------------------------------------- readStream
\* The payload text a `data: ` line carries, "Bad" when JSON.parse rejects it.
PayloadOf(chunk) ==
  LET core == Trim(Tail(chunk))
  IN IF Len(core) = 1 /\ Json(core[1]).parsed THEN core[1] ELSE "Bad"

\* Mutant of onParseError: a line that fails to parse ends readStream.
onParseError_Returns(h) == [h EXCEPT !.exit = "return"]

\* catch (err) { ...; boundary = buffer.indexOf("\n"); continue; }
onParseError(h) == h

\* Mutant of onError: the message is put after the text accumulated so far.
onError_KeepsAccumulated(s, h, data) ==
  LET d1 == IF h.chatItem THEN h ELSE createAssistantMessageDiv(s, h)
      d2 == stopRespondingAndPolling(d1)
      d3 == appendAssistantMessage(s, d2,
              h.accumulatedContent
                \o (IF data.message # <<>> THEN data.message ELSE GenericError),
              FALSE, <<>>)
  IN [d3 EXCEPT !.exit = "return"]

\* if (data.error) { ... return; }
onError(s, h, data) ==
  LET d1 == IF h.chatItem THEN h ELSE createAssistantMessageDiv(s, h)
      d2 == stopRespondingAndPolling(d1)
      d3 == appendAssistantMessage(s, d2,
              IF data.message # <<>> THEN data.message ELSE GenericError,
              FALSE, <<>>)
  IN [d3 EXCEPT !.exit = "return"]

\* Mutant of onStreamEnd: the end of the stream removes the last turn.
onStreamEnd_DropsTurn(h) ==
  [stopRespondingAndPolling(h) EXCEPT !.exit = "break",
                                      !.ml = SubSeq(@, 1, Len(@) - 1)]

\* if (data.type === "stream_end") { stopRespondingAndPolling(); break; }
onStreamEnd(h) == [stopRespondingAndPolling(h) EXCEPT !.exit = "break"]

\* Mutant of onCompletedMessage: the content is added to what was accumulated.
onCompletedMessage_Accumulates(s, d, data) ==
  [stopRespondingAndPolling(clearAssistantMessage(s, d))
     EXCEPT !.accumulatedContent = @ \o data.content,
            !.annotations = data.annotations,
            !.isStreaming = FALSE]

\* if (data.type === "completed_message") { ... }
onCompletedMessage(s, d, data) ==
  [stopRespondingAndPolling(clearAssistantMessage(s, d))
     EXCEPT !.accumulatedContent = data.content,
            !.annotations = data.annotations,
            !.isStreaming = FALSE]

\* Mutant of onDelta: the delta goes in front of what was accumulated.
onDelta_Prepends(d, data) == [d EXCEPT !.accumulatedContent = data.content \o @]

\* else { accumulatedContent += data.content; }
onDelta(d, data) == [d EXCEPT !.accumulatedContent = @ \o data.content]

\* The body of the inner while loop for one trimmed line.  exit: "next" to go
\* on with the next line, "break" after stream_end, "return" after an error
\* event.
HandleRecord(s, d, chunk) ==
  IF ~(chunk # <<>> /\ Head(chunk) = "P") THEN d
  ELSE
    LET data == JsonParse(Tail(chunk))
        h == [d EXCEPT !.handled = Append(@, PayloadOf(chunk))]
    IN
    IF ~data.parsed THEN onParseError(h)
    ELSE IF data.error THEN onError(s, h, data)
    ELSE IF data.type = "stream_end" THEN onStreamEnd(h)
    ELSE IF data.type = "thread_run" THEN h
    ELSE
      LET d1 == IF h.chatItem THEN h ELSE createAssistantMessageDiv(s, h)
          d2 == IF data.type = "completed_message"
                  THEN onCompletedMessage(s, d1, data)
                  ELSE onDelta(d1, data)
      IN appendAssistantMessage(s, d2, d2.accumulatedContent, d2.isStreaming,
                                d2.annotations)

\* Mutant of ProcessBuffer: what is left without a newline is taken for a line.
RECURSIVE ProcessBuffer_NoNewlineNeeded(_, _)
ProcessBuffer_NoNewlineNeeded(s, d) ==
  LET nl == IndexOfNL(d.buffer)
      boundary == IF nl = 0 /\ d.buffer # <<>> THEN Len(d.buffer) + 1 ELSE nl
  IN IF boundary = 0 THEN d
     ELSE LET chunk == Trim(SubSeq(d.buffer, 1, boundary - 1))
              d1 == [d EXCEPT !.buffer = IF boundary > Len(@) THEN <<>>
                                         ELSE SubSeq(@, boundary + 1, Len(@))]
              d2 == HandleRecord(s, d1, chunk)
          IN IF d2.exit # "next" THEN d2 ELSE ProcessBuffer_NoNewlineNeeded(s, d2)

\* while (boundary !== -1) { ... }
RECURSIVE ProcessBuffer(_, _)
ProcessBuffer(s, d) ==
  LET boundary == IndexOfNL(d.buffer)
  IN IF boundary = 0 THEN d
     ELSE LET chunk == Trim(SubSeq(d.buffer, 1, boundary - 1))
              d1 == [d EXCEPT !.buffer = SubSeq(@, boundary + 1, Len(@))]
              d2 == HandleRecord(s, d1, chunk)
          IN IF d2.exit # "next" THEN d2 ELSE ProcessBuffer(s, d2)

\* --------------------------------------------------------- loadChatHistory
\* The list elements made by loadChatHistory's error branch belong to no send.
Loader == 0 - 1

HistoryId(i) == [kind |-> "history", send |-> i]

HistoryLoadError == <<"Error occurs while loading chat history!">>

\* Bodies of GET /chat/history, newest entry first.
Histories ==
  {<<>>,
   <<[role |-> "assistant", content |-> <<"x", "y">>,
      annotations |-> <<[file_name |-> <<>>, text |-> <<"t">>,
                         start_index |-> 0, end_index |-> 1]>>],
     [role |-> "user", content |-> <<"h">>, annotations |-> <<>>]>>}

\* Mutant of Reverse: the order is kept.
Reverse_KeepsOrder(seq) == seq

Reverse(seq) == [i \in 1..Len(seq) |-> seq[Len(seq) + 1 - i]]

historyMessages(json_response) ==
  LET reversedResponse == Reverse(json_response)
  IN [i \in 1..Len(reversedResponse) |->
        LET entry == reversedResponse[i]
        IN IF entry.role = "user"
             THEN Turn(HistoryId(i), "user", entry.content, 0)
             ELSE Turn(HistoryId(i), "assistant",
                       preprocessContent(entry.content, entry.annotations), 0)]

\* The answer to the GET /chat/history issued on mount: ok is response.ok, and
\* a rejected fetch takes the catch branch, which does what the else branch does.
loadChatHistory(ok, json_response) ==
  /\ isLoadingChatHistory
  /\ isLoadingChatHistory' = FALSE
  /\ LET d0 == [ml |-> messageList, chatItem |-> FALSE, setMessageListRan |-> FALSE,
                handled |-> <<>>, scrolls |-> {}]
         ml1 == IF ok THEN historyMessages(json_response) \o messageList
                ELSE appendAssistantMessage(Loader,
                       createAssistantMessageDiv(Loader, d0),
                       HistoryLoadError, FALSE, <<>>).ml
     IN /\ messageList' = ml1
        /\ chatContext' = Captured
  /\ UNCHANGED <<isResponding, isOrchestrationMode, orchestrationInitialized,
                 showAgentThinking, isPollingThinking, agentThinkingInterval, timers,
                 send, statusFetches, written>>
  /\ UNCHANGED <<agentThinkingMessages, polls, preprocessArgs, preprocessResult, panel>>

\* ------------------------------------------------------------------ onSend
Message == <<"u">>
OrchestrationResult == <<"r">>
OrchestrationBodyError == <<"e">>
GenericOrchestrationError == <<"An error occurred during orchestration">>

StatusResponses == {"initialized", "uninitialized", "notsuccess", "non2xx", "throw"}
StreamResponses == {"stream", "nobody", "non2xx", "throw"}
OrchestrationResponses == {"success", "error", "noerror", "non2xx", "throw"}

\* Writes the UI state u back; the memoised chatContext (deps [messageList,
\* isResponding]) is rebuilt when setMessageList ran or isResponding changed.
Publish(u, initialized, setMessageListRan) ==
  /\ messageList' = u.ml
  /\ orchestrationInitialized' = initialized
  /\ isResponding' = u.isResponding
  /\ isPollingThinking' = u.isPollingThinking
  /\ agentThinkingInterval' = u.agentThinkingInterval
  /\ timers' = u.timers
  /\ chatContext' = IF setMessageListRan \/ u.isResponding # isResponding
                      THEN [Captured EXCEPT
                              !.orchestrationInitialized = initialized,
                              !.isPollingThinking = u.isPollingThinking]
                      ELSE chatContext

\* Mutant of Dispatch: polling is started whichever endpoint is used.
Dispatch_StartsOnAnyPath(s, u, cap, useOrchestration, initialized, requests, setMessageListRan) ==
  LET endpoint == IF useOrchestration THEN "POST /orchestration/chat" ELSE "POST /chat"
      u1 == [u EXCEPT !.isResponding = TRUE]
      u2 == IF cap.showAgentThinking
              THEN startAgentThinkingPolling(s, u1, cap) ELSE u1
  IN /\ send' = [send EXCEPT ![s].pc = "post", ![s].cap = NoCapture,
                             ![s].before = IF send[s].pc = "idle" THEN messageList ELSE @,
                             ![s].useOrchestration = useOrchestration,
                             ![s].requests = Append(requests, endpoint)]
     /\ Publish(u2, initialized, setMessageListRan)

\* onSend from `const endpoint = ...` to `await fetch(endpoint, ...)`.
Dispatch(s, u, cap, useOrchestration, initialized, requests, setMessageListRan) ==
  LET endpoint == IF useOrchestration THEN "POST /orchestration/chat" ELSE "POST /chat"
      u1 == [u EXCEPT !.isResponding = TRUE]
      u2 == IF useOrchestration /\ cap.showAgentThinking
              THEN startAgentThinkingPolling(s, u1, cap) ELSE u1
  IN /\ send' = [send EXCEPT ![s].pc = "post", ![s].cap = NoCapture,
                             ![s].before = IF send[s].pc = "idle" THEN messageList ELSE @,
                             ![s].useOrchestration = useOrchestration,
                             ![s].requests = Append(requests, endpoint)]
     /\ Publish(u2, initialized, setMessageListRan)

\* onSend up to its first await.
OnSend(s) ==
  /\ ~isLoadingChatHistory   \* the chat box is rendered once the history is loaded
  /\ send[s].pc = "idle"
  /\ \A t \in Sends : t < s => send[t].pc # "idle"
  /\ LET cap == chatContext
         u == [Ui EXCEPT !.ml = Append(@, Turn(UserId(s), "user", Message, 0))]
     IN IF cap.isOrchestrationMode /\ ~cap.orchestrationInitialized
          THEN /\ send' = [send EXCEPT ![s].pc = "status", ![s].cap = cap,
                             ![s].before = messageList,
                             ![s].requests = <<"GET /orchestration/status">>]
               /\ Publish(u, orchestrationInitialized, TRUE)
          ELSE Dispatch(s, u, cap,
                        cap.isOrchestrationMode /\ cap.orchestrationInitialized,
                        orchestrationInitialized, <<>>, TRUE)
  /\ UNCHANGED <<isLoadingChatHistory, isOrchestrationMode, showAgentThinking,
                 statusFetches, written>>
  /\ UNCHANGED <<agentThinkingMessages, polls, preprocessArgs, preprocessResult, panel>>

\* Mutant of OnSendStatus: the endpoint follows the cached flag, not the answer.
OnSendStatus_IgnoresAnswer(s, r) ==
  /\ send[s].pc = "status"
  /\ Dispatch(s, Ui, send[s].cap, send[s].cap.orchestrationInitialized,
              IF r = "initialized" THEN TRUE ELSE orchestrationInitialized,
              send[s].requests, FALSE)
  /\ UNCHANGED <<isLoadingChatHistory, isOrchestrationMode, showAgentThinking,
                 statusFetches, written>>
  /\ UNCHANGED <<agentThinkingMessages, polls, preprocessArgs, preprocessResult, panel>>

\* onSend resumed with the answer to its own GET /orchestration/status.
OnSendStatus(s, r) ==
  /\ send[s].pc = "status"
  /\ Dispatch(s, Ui, send[s].cap, r = "initialized",
              IF r = "initialized" THEN TRUE ELSE orchestrationInitialized,
              send[s].requests, FALSE)
  /\ UNCHANGED <<isLoadingChatHistory, isOrchestrationMode, showAgentThinking,
                 statusFetches, written>>
  /\ UNCHANGED <<agentThinkingMessages, polls, preprocessArgs, preprocessResult, panel>>

\* Mutant of OnSendResponse: a body without a result is shown as the result.
OnSendResponse_AlwaysResult(s, r) ==
  /\ send[s].pc = "post"
  /\ r \in (IF send[s].useOrchestration THEN OrchestrationResponses ELSE StreamResponses)
  /\ CASE r = "non2xx" ->
            /\ send' = [send EXCEPT ![s] = Done]
            /\ Publish(Ui, orchestrationInitialized, FALSE)
       [] r \in {"throw", "nobody"} ->
            /\ send' = [send EXCEPT ![s] = Done]
            /\ Publish(stopRespondingAndPolling(Ui), orchestrationInitialized, FALSE)
       [] r = "stream" ->
            /\ send' = [send EXCEPT ![s].pc = "stream", ![s].requests = <<>>]
            /\ Publish(Ui, orchestrationInitialized, FALSE)
       [] OTHER ->
            LET content ==
                  OrchestrationResult
                u == [Ui EXCEPT !.ml = Append(@, Turn(OrchId(s), "assistant", content, 0))]
            IN /\ send' = [send EXCEPT ![s] = Done]
               /\ Publish(stopRespondingAndPolling(u), orchestrationInitialized, TRUE)
  /\ UNCHANGED <<isLoadingChatHistory, isOrchestrationMode, showAgentThinking,
                 statusFetches, written>>
  /\ UNCHANGED <<agentThinkingMessages, polls, preprocessArgs, preprocessResult, panel>>

\* Mutant of OnSendResponse: after a non-2xx answer the POST is issued again.
OnSendResponse_Retries(s, r) ==
  /\ send[s].pc = "post"
  /\ r \in (IF send[s].useOrchestration THEN OrchestrationResponses ELSE StreamResponses)
  /\ CASE r = "non2xx" ->
            /\ send' = [send EXCEPT ![s].requests =
                                      Append(@, @[Len(@)])]
            /\ Publish(Ui, orchestrationInitialized, FALSE)
       [] r \in {"throw", "nobody"} ->
            /\ send' = [send EXCEPT ![s] = Done]
            /\ Publish(stopRespondingAndPolling(Ui), orchestrationInitialized, FALSE)
       [] r = "stream" ->
            /\ send' = [send EXCEPT ![s].pc = "stream", ![s].requests = <<>>]
            /\ Publish(Ui, orchestrationInitialized, FALSE)
       [] OTHER ->
            LET content ==
                  IF r = "success" THEN OrchestrationResult
                  ELSE IF r = "error" THEN OrchestrationBodyError
                  ELSE GenericOrchestrationError
                u == [Ui EXCEPT !.ml = Append(@, Turn(OrchId(s), "assistant", content, 0))]
            IN /\ send' = [send EXCEPT ![s] = Done]
               /\ Publish(stopRespondingAndPolling(u), orchestrationInitialized, TRUE)
  /\ UNCHANGED <<isLoadingChatHistory, isOrchestrationMode, showAgentThinking,
                 statusFetches, written>>
  /\ UNCHANGED <<agentThinkingMessages, polls, preprocessArgs, preprocessResult, panel>>

\* onSend resumed with the answer to its POST (or with the fetch's rejection).
OnSendResponse(s, r) ==
  /\ send[s].pc = "post"
  /\ r \in (IF send[s].useOrchestration THEN OrchestrationResponses ELSE StreamResponses)
  /\ CASE r = "non2xx" ->
            /\ send' = [send EXCEPT ![s] = Done]
            /\ Publish(Ui, orchestrationInitialized, FALSE)
       [] r \in {"throw", "nobody"} ->
            /\ send' = [send EXCEPT ![s] = Done]
            /\ Publish(stopRespondingAndPolling(Ui), orchestrationInitialized, FALSE)
       [] r = "stream" ->
            /\ send' = [send EXCEPT ![s].pc = "stream", ![s].requests = <<>>]
            /\ Publish(Ui, orchestrationInitialized, FALSE)
       [] OTHER ->
            LET content ==
                  IF r = "success" THEN OrchestrationResult
                  ELSE IF r = "error" THEN OrchestrationBodyError
                  ELSE GenericOrchestrationError
                u == [Ui EXCEPT !.ml = Append(@, Turn(OrchId(s), "assistant", content, 0))]
            IN /\ send' = [send EXCEPT ![s] = Done]
               /\ Publish(stopRespondingAndPolling(u), orchestrationInitialized, TRUE)
  /\ UNCHANGED <<isLoadingChatHistory, isOrchestrationMode, showAgentThinking,
                 statusFetches, written>>
  /\ UNCHANGED <<agentThinkingMessages, polls, preprocessArgs, preprocessResult, panel>>

\* ------------------------------------------------------------- the stream
\* What one server write puts on the wire.
Line(payload) == <<"P", payload, "NL">>

StreamWrites ==
  {Line(p) : p \in Payloads \ {"Db"}}
    \cup {<<"WS", "P", "Db", "WS", "NL">>,   \* a line with surrounding whitespace
          <<"Da", "NL">>,                     \* a line without the `data: ` prefix
          <<"P", "Da">>}                      \* a record whose newline has not come

\* logged: whether the write is entered in the record `sent`.
ServerWrite(s, bytes, max, logged) ==
  /\ send[s].pc = "stream"
  /\ written < max
  /\ written' = written + 1
  /\ send' = [send EXCEPT ![s].wire = @ \o bytes, ![s].sent = IF logged THEN Append(@, bytes) ELSE @]
  /\ UNCHANGED <<messageList, isLoadingChatHistory, isResponding, isOrchestrationMode,
                 orchestrationInitialized, showAgentThinking, isPollingThinking,
                 agentThinkingInterval, timers, chatContext, statusFetches>>
  /\ UNCHANGED <<agentThinkingMessages, polls, preprocessArgs, preprocessResult, panel>>

\* What the decoder of send s makes of the next k bytes: buffer += textChunk,
\* then the inner loop.
Decode(s, k) ==
  LET l == send[s]
  IN ProcessBuffer(s,
       [ml |-> messageList, isResponding |-> isResponding,
        isPollingThinking |-> isPollingThinking,
        agentThinkingInterval |-> agentThinkingInterval, timers |-> timers,
        buffer |-> l.buffer \o SubSeq(l.wire, 1, k),
        chatItem |-> l.chatItem, accumulatedContent |-> l.accumulatedContent,
        isStreaming |-> l.isStreaming, annotations |-> l.annotations,
        handled |-> l.handled, scrolls |-> l.scrolls,
        setMessageListRan |-> FALSE, exit |-> "next"])

\* One turn of readStream's outer loop: reader.read() yields the next k bytes.
ReadChunk(s, k) ==
  /\ send[s].pc = "stream"
  /\ k \in 1..Len(send[s].wire)
  /\ LET l == send[s]
         d == Decode(s, k)
     IN /\ send' = [send EXCEPT
                      ![s] = IF d.exit = "return"
                               THEN DoneStream([l EXCEPT !.handled = d.handled,
                                                         !.scrolls = d.scrolls])
                               ELSE [l EXCEPT
                                       !.wire = SubSeq(l.wire, k + 1, Len(l.wire)),
                                       !.buffer = d.buffer,
                                       !.chatItem = d.chatItem,
                                       !.accumulatedContent = d.accumulatedContent,
                                       !.isStreaming = d.isStreaming,
                                       !.annotations = d.annotations,
                                       !.handled = d.handled,
                                       !.scrolls = d.scrolls]]
        /\ Publish(d, orchestrationInitialized, d.setMessageListRan)
  /\ UNCHANGED <<isLoadingChatHistory, isOrchestrationMode, showAgentThinking,
                 statusFetches, written>>
  /\ UNCHANGED <<agentThinkingMessages, polls, preprocessArgs, preprocessResult, panel>>

\* Mutant of ReadDone: the end of the stream is reported as an error turn.
ReadDone_AddsErrorTurn(s) ==
  /\ send[s].pc = "stream"
  /\ send[s].wire = <<>>
  /\ send' = [send EXCEPT ![s] = DoneStream(send[s])]
  /\ messageList' = Append(messageList, Turn(AsstId(s), "undefined", GenericError, 0))
  /\ UNCHANGED <<isLoadingChatHistory, isResponding, isOrchestrationMode,
                 orchestrationInitialized, showAgentThinking, isPollingThinking,
                 agentThinkingInterval, timers, chatContext, statusFetches, written>>
  /\ UNCHANGED <<agentThinkingMessages, polls, preprocessArgs, preprocessResult, panel>>

\* reader.read() reports done: the server closed the stream.
ReadDone(s) ==
  /\ send[s].pc = "stream"
  /\ send[s].wire = <<>>
  /\ send' = [send EXCEPT ![s] = DoneStream(send[s])]
  /\ UNCHANGED <<messageList, isLoadingChatHistory, isResponding, isOrchestrationMode,
                 orchestrationInitialized, showAgentThinking, isPollingThinking,
                 agentThinkingInterval, timers, chatContext, statusFetches, written>>
  /\ UNCHANGED <<agentThinkingMessages, polls, preprocessArgs, preprocessResult, panel>>

\* reader.read() rejects: readStream's promise rejects and the error is logged.
ReadError(s) ==
  /\ send[s].pc = "stream"
  /\ send' = [send EXCEPT ![s] = Done]
  /\ UNCHANGED <<messageList, isLoadingChatHistory, isResponding, isOrchestrationMode,
                 orchestrationInitialized, showAgentThinking, isPollingThinking,
                 agentThinkingInterval, timers, chatContext, statusFetches, written>>
  /\ UNCHANGED <<agentThinkingMessages, polls, preprocessArgs, preprocessResult, panel>>

\* ---------------------------------------------------------- settings panel
\* Mutant of handleOrchestrationModeChange: turning the mode off keeps the flag.
handleOrchestrationModeChange_KeepsFlag(enabled) ==
  /\ enabled = ~isOrchestrationMode
  /\ isOrchestrationMode' = enabled
  /\ IF enabled
       THEN /\ statusFetches + 2 <= MaxFetches
            /\ statusFetches' = statusFetches + 2
       ELSE UNCHANGED statusFetches
  /\ UNCHANGED <<messageList, isLoadingChatHistory, isResponding, showAgentThinking, isPollingThinking,
                 agentThinkingInterval, timers, chatContext, send, written,
                 orchestrationInitialized>>
  /\ UNCHANGED <<agentThinkingMessages, polls, preprocessArgs, preprocessResult, panel>>

\* The switch hands over the negation of what it shows.  Turning the mode on
\* calls fetchOrchestrationStatus, and so does the effect on
\* [isOrchestrationMode] after the render.
handleOrchestrationModeChange(enabled) ==
  /\ enabled = ~isOrchestrationMode
  /\ isOrchestrationMode' = enabled
  /\ IF enabled
       THEN /\ statusFetches + 2 <= MaxFetches
            /\ statusFetches' = statusFetches + 2
            /\ UNCHANGED orchestrationInitialized
       ELSE /\ orchestrationInitialized' = FALSE
            /\ UNCHANGED statusFetches
  /\ UNCHANGED <<messageList, isLoadingChatHistory, isResponding, showAgentThinking, isPollingThinking,
                 agentThinkingInterval, timers, chatContext, send, written>>
  /\ UNCHANGED <<agentThinkingMessages, polls, preprocessArgs, preprocessResult, panel>>

\* The answer to a fetchOrchestrationStatus call.
fetchOrchestrationStatus(r) ==
  /\ statusFetches > 0
  /\ statusFetches' = statusFetches - 1
  /\ orchestrationInitialized' =
       IF r \in {"initialized", "uninitialized"}
         THEN r = "initialized" ELSE orchestrationInitialized
  /\ UNCHANGED <<messageList, isLoadingChatHistory, isResponding, isOrchestrationMode, showAgentThinking,
                 isPollingThinking, agentThinkingInterval, timers, chatContext, send,
                 written>>
  /\ UNCHANGED <<agentThinkingMessages, polls, preprocessArgs, preprocessResult, panel>>

\* Mutant of handleInitializeOrchestration: a successful POST sets the flag.
handleInitializeOrchestration_SetsFlag(ok) ==
  /\ isOrchestrationMode
  /\ ~orchestrationInitialized
  /\ ok
  /\ statusFetches + 1 <= MaxFetches
  /\ statusFetches' = statusFetches + 1
  /\ orchestrationInitialized' = TRUE
  /\ UNCHANGED <<messageList, isLoadingChatHistory, isResponding, isOrchestrationMode,
                 showAgentThinking, isPollingThinking,
                 agentThinkingInterval, timers, chatContext, send, written>>
  /\ UNCHANGED <<agentThinkingMessages, polls, preprocessArgs, preprocessResult, panel>>

\* The Initialize button is rendered in orchestration mode while the flag is
\* off.  ok is response.ok of POST /orchestration/initialize: when it holds
\* fetchOrchestrationStatus is called, and nothing else happens either way.
handleInitializeOrchestration(ok) ==
  /\ isOrchestrationMode
  /\ ~orchestrationInitialized
  /\ ok
  /\ statusFetches + 1 <= MaxFetches
  /\ statusFetches' = statusFetches + 1
  /\ UNCHANGED <<messageList, isLoadingChatHistory, isResponding, isOrchestrationMode,
                 orchestrationInitialized, showAgentThinking, isPollingThinking,
                 agentThinkingInterval, timers, chatContext, send, written>>
  /\ UNCHANGED <<agentThinkingMessages, polls, preprocessArgs, preprocessResult, panel>>

\* The Cleanup button is rendered in orchestration mode while the flag is on.
\* ok is response.ok of POST /orchestration/cleanup.
handleCleanupOrchestration(ok) ==
  /\ isOrchestrationMode
  /\ orchestrationInitialized
  /\ ok
  /\ orchestrationInitialized' = FALSE
  /\ UNCHANGED <<messageList, isLoadingChatHistory, isResponding, isOrchestrationMode,
                 showAgentThinking, isPollingThinking, agentThinkingInterval, timers,
                 chatContext, send, statusFetches, written>>
  /\ UNCHANGED <<agentThinkingMessages, polls, preprocessArgs, preprocessResult, panel>>

\* The switch is rendered only in orchestration mode.
handleShowAgentThinkingChange(enabled) ==
  /\ isOrchestrationMode
  /\ enabled = ~showAgentThinking
  /\ showAgentThinking' = enabled
  /\ UNCHANGED <<messageList, isLoadingChatHistory, isResponding, isOrchestrationMode,
                 orchestrationInitialized, isPollingThinking, agentThinkingInterval,
                 timers, chatContext, send, statusFetches, written>>
  /\ UNCHANGED <<agentThinkingMessages, polls, preprocessArgs, preprocessResult, panel>>

\* --------------------------------------------------------------- newThread
\* The New Chat button: setMessageList([]) and deleteAllCookies().  The new
\* list rebuilds the memoised chatContext.
newThread ==
  /\ messageList' = <<>>
  /\ chatContext' = Captured
  /\ UNCHANGED <<isLoadingChatHistory, isResponding, isOrchestrationMode,
                 orchestrationInitialized, showAgentThinking, isPollingThinking,
                 agentThinkingInterval, timers, send, statusFetches, written>>
  /\ UNCHANGED <<agentThinkingMessages, polls, preprocessArgs, preprocessResult, panel>>

\* ------------------------------------------------------ the poller's ticks
\* Bodies and failures of GET /orchestration/agent-thinking: a success body
\* with one or two messages or with no messages field, a body whose status is
\* not success, a non-2xx answer, and a rejected fetch.
PollResponses == {"one", "two", "nomessages", "notsuccess", "non2xx", "throw"}

\* The interval timer t fires and its callback calls fetchAgentThinking.
pollInterval(t) ==
  /\ t \in timers
  /\ polls < MaxPolls
  /\ polls' = polls + 1
  /\ UNCHANGED <<messageList, isLoadingChatHistory, isResponding, isOrchestrationMode,
                 orchestrationInitialized, showAgentThinking, isPollingThinking,
                 agentThinkingInterval, timers, chatContext, send, statusFetches,
                 written, agentThinkingMessages, preprocessArgs, preprocessResult, panel>>

\* Mutant of fetchAgentThinking: a failed poll empties the slot.
fetchAgentThinking_ClearsOnFailure(r) ==
  /\ polls > 0
  /\ polls' = polls - 1
  /\ agentThinkingMessages' =
       CASE r = "one" -> <<"m">>
         [] r = "two" -> <<"m", "n">>
         [] OTHER -> <<>>
  /\ UNCHANGED <<messageList, isLoadingChatHistory, isResponding, isOrchestrationMode,
                 orchestrationInitialized, showAgentThinking, isPollingThinking,
                 agentThinkingInterval, timers, chatContext, send, statusFetches,
                 written, preprocessArgs, preprocessResult, panel>>

\* The answer to a fetchAgentThinking call.
fetchAgentThinking(r) ==
  /\ polls > 0
  /\ polls' = polls - 1
  /\ agentThinkingMessages' =
       CASE r = "one" -> <<"m">>
         [] r = "two" -> <<"m", "n">>
         [] r = "nomessages" -> <<>>
         [] OTHER -> agentThinkingMessages
  /\ UNCHANGED <<messageList, isLoadingChatHistory, isResponding, isOrchestrationMode,
                 orchestrationInitialized, showAgentThinking, isPollingThinking,
                 agentThinkingInterval, timers, chatContext, send, statusFetches,
                 written, preprocessArgs, preprocessResult, panel>>

\* ------------------------------------------------------ OrchestrationPanel
\* What the user may type into the two inputs.
AgentIdTexts == {<<>>, <<"WS">>, <<",">>, <<"a">>}
MessageTexts == {<<>>, <<"WS">>, <<"q">>}

\* agentIds.split(',').map(id => id.trim()).filter(id => id)
AgentIdList(agentIds) == SelectSeq(agentIds, LAMBDA c : c \notin {"WS", ","})

PanelStatusResponses == {"initialized", "not_initialized", "non2xx", "throw"}
PanelResponses == {"ok", "non2xx", "throw"}

\* The mode switch; the effect on [isOrchestrationMode] calls
\* checkOrchestrationStatus when the mode is on.
setIsOrchestrationMode(checked) ==
  /\ checked = ~panel.isOrchestrationMode
  /\ checked => panel.issued < MaxPanelRequests
  /\ panel' = IF checked
                THEN [panel EXCEPT !.isOrchestrationMode = TRUE,
                                   !.pending.status = @ + 1, !.issued = @ + 1]
                ELSE [panel EXCEPT !.isOrchestrationMode = FALSE]
  /\ UNCHANGED <<messageList, isLoadingChatHistory, isResponding, isOrchestrationMode,
                 orchestrationInitialized, showAgentThinking, isPollingThinking,
                 agentThinkingInterval, timers, chatContext, send, statusFetches,
                 written, agentThinkingMessages, polls, preprocessArgs,
                 preprocessResult>>

\* checkOrchestrationStatus resumed with the answer to GET /orchestration/status.
checkOrchestrationStatus(r) ==
  /\ panel.pending.status > 0
  /\ panel' = IF r \in {"initialized", "not_initialized"}
                THEN [panel EXCEPT !.pending.status = @ - 1,
                                   !.orchestrationStatus = r,
                                   !.agentIds = IF r = "initialized" THEN <<"a">> ELSE @]
                ELSE [panel EXCEPT !.pending.status = @ - 1]
  /\ UNCHANGED <<messageList, isLoadingChatHistory, isResponding, isOrchestrationMode,
                 orchestrationInitialized, showAgentThinking, isPollingThinking,
                 agentThinkingInterval, timers, chatContext, send, statusFetches,
                 written, agentThinkingMessages, polls, preprocessArgs,
                 preprocessResult>>

setAgentIds(value) ==
  /\ panel.isOrchestrationMode
  /\ value # panel.agentIds
  /\ panel' = [panel EXCEPT !.agentIds = value]
  /\ UNCHANGED <<messageList, isLoadingChatHistory, isResponding, isOrchestrationMode,
                 orchestrationInitialized, showAgentThinking, isPollingThinking,
                 agentThinkingInterval, timers, chatContext, send, statusFetches,
                 written, agentThinkingMessages, polls, preprocessArgs,
                 preprocessResult>>

\* The query input is rendered when the stored status is 'initialized'.
setMessage(value) ==
  /\ panel.isOrchestrationMode
  /\ panel.orchestrationStatus = "initialized"
  /\ value # panel.message
  /\ panel' = [panel EXCEPT !.message = value]
  /\ UNCHANGED <<messageList, isLoadingChatHistory, isResponding, isOrchestrationMode,
                 orchestrationInitialized, showAgentThinking, isPollingThinking,
                 agentThinkingInterval, timers, chatContext, send, statusFetches,
                 written, agentThinkingMessages, polls, preprocessArgs,
                 preprocessResult>>

\* The Initialize button, disabled while isInitializing.
initializeOrchestration ==
  /\ panel.isOrchestrationMode
  /\ ~panel.isInitializing
  /\ panel' =
       IF Trim(panel.agentIds) = <<>>
         THEN [panel EXCEPT !.error = "Please enter at least one agent ID"]
       ELSE IF AgentIdList(panel.agentIds) = <<>>
         THEN [panel EXCEPT !.error = "Please enter valid agent IDs"]
       ELSE [panel EXCEPT !.isInitializing = TRUE, !.error = "", !.success = "",
                          !.pending.initialize = @ + 1, !.issued = @ + 1]
  /\ (Trim(panel.agentIds) # <<>> /\ AgentIdList(panel.agentIds) # <<>>)
       => panel.issued < MaxPanelRequests
  /\ UNCHANGED <<messageList, isLoadingChatHistory, isResponding, isOrchestrationMode,
                 orchestrationInitialized, showAgentThinking, isPollingThinking,
                 agentThinkingInterval, timers, chatContext, send, statusFetches,
                 written, agentThinkingMessages, polls, preprocessArgs,
                 preprocessResult>>

\* initializeOrchestration resumed with the answer to POST
\* /orchestration/initialize; r is agent_info.status for a 2xx answer.
initializeOrchestrationResponse(r) ==
  /\ panel.pending.initialize > 0
  /\ panel' =
       CASE r \in {"initialized", "not_initialized"} ->
              [panel EXCEPT !.pending.initialize = @ - 1, !.isInitializing = FALSE,
                            !.orchestrationStatus = r,
                            !.success = "Successfully initialized orchestration"]
         [] r = "non2xx" ->
              [panel EXCEPT !.pending.initialize = @ - 1, !.isInitializing = FALSE,
                            !.error = "Failed to initialize orchestration"]
         [] OTHER ->
              [panel EXCEPT !.pending.initialize = @ - 1, !.isInitializing = FALSE,
                            !.error = "Error initializing orchestration"]
  /\ UNCHANGED <<messageList, isLoadingChatHistory, isResponding, isOrchestrationMode,
                 orchestrationInitialized, showAgentThinking, isPollingThinking,
                 agentThinkingInterval, timers, chatContext, send, statusFetches,
                 written, agentThinkingMessages, polls, preprocessArgs,
                 preprocessResult>>

\* Mutant of processOrchestrationQuery: an empty message is sent as well.
processOrchestrationQuery_SendsEmpty ==
  /\ panel.isOrchestrationMode
  /\ panel.orchestrationStatus = "initialized"
  /\ ~panel.isProcessing
  /\ panel.issued < MaxPanelRequests
  /\ panel' = [panel EXCEPT !.isProcessing = TRUE, !.error = "",
                            !.orchestrationResult = <<>>,
                            !.pending.chat = @ + 1, !.issued = @ + 1]
  /\ UNCHANGED <<messageList, isLoadingChatHistory, isResponding, isOrchestrationMode,
                 orchestrationInitialized, showAgentThinking, isPollingThinking,
                 agentThinkingInterval, timers, chatContext, send, statusFetches,
                 written, agentThinkingMessages, polls, preprocessArgs,
                 preprocessResult>>

\* The Send button, rendered when the stored status is 'initialized' and
\* disabled while isProcessing.
processOrchestrationQuery ==
  /\ panel.isOrchestrationMode
  /\ panel.orchestrationStatus = "initialized"
  /\ ~panel.isProcessing
  /\ panel' =
       IF Trim(panel.message) = <<>>
         THEN [panel EXCEPT !.error = "Please enter a message"]
       ELSE IF panel.orchestrationStatus # "initialized"
         THEN [panel EXCEPT !.error = "Orchestration is not initialized"]
       ELSE [panel EXCEPT !.isProcessing = TRUE, !.error = "",
                          !.orchestrationResult = <<>>,
                          !.pending.chat = @ + 1, !.issued = @ + 1]
  /\ Trim(panel.message) # <<>> => panel.issued < MaxPanelRequests
  /\ UNCHANGED <<messageList, isLoadingChatHistory, isResponding, isOrchestrationMode,
                 orchestrationInitialized, showAgentThinking, isPollingThinking,
                 agentThinkingInterval, timers, chatContext, send, statusFetches,
                 written, agentThinkingMessages, polls, preprocessArgs,
                 preprocessResult>>

\* processOrchestrationQuery resumed with the answer to POST /orchestration/chat.
processOrchestrationQueryResponse(r) ==
  /\ panel.pending.chat > 0
  /\ panel' =
       CASE r = "ok" ->
              [panel EXCEPT !.pending.chat = @ - 1, !.isProcessing = FALSE,
                            !.orchestrationResult = <<"r">>,
                            !.success = "Query processed"]
         [] r = "non2xx" ->
              [panel EXCEPT !.pending.chat = @ - 1, !.isProcessing = FALSE,
                            !.error = "Failed to process query"]
         [] OTHER ->
              [panel EXCEPT !.pending.chat = @ - 1, !.isProcessing = FALSE,
                            !.error = "Error processing query"]
  /\ UNCHANGED <<messageList, isLoadingChatHistory, isResponding, isOrchestrationMode,
                 orchestrationInitialized, showAgentThinking, isPollingThinking,
                 agentThinkingInterval, timers, chatContext, send, statusFetches,
                 written, agentThinkingMessages, polls, preprocessArgs,
                 preprocessResult>>

\* The Cleanup button, rendered when a status is stored.
cleanupOrchestration ==
  /\ panel.isOrchestrationMode
  /\ panel.orchestrationStatus # "null"
  /\ panel.issued < MaxPanelRequests
  /\ panel' = [panel EXCEPT !.pending.cleanup = @ + 1, !.issued = @ + 1]
  /\ UNCHANGED <<messageList, isLoadingChatHistory, isResponding, isOrchestrationMode,
                 orchestrationInitialized, showAgentThinking, isPollingThinking,
                 agentThinkingInterval, timers, chatContext, send, statusFetches,
                 written, agentThinkingMessages, polls, preprocessArgs,
                 preprocessResult>>

\* cleanupOrchestration resumed with the answer to POST /orchestration/cleanup.
cleanupOrchestrationResponse(r) ==
  /\ panel.pending.cleanup > 0
  /\ panel' =
       CASE r = "ok" ->
              [panel EXCEPT !.pending.cleanup = @ - 1,
                            !.orchestrationStatus = "null",
                            !.orchestrationResult = <<>>,
                            !.success = "Orchestration resources cleaned up successfully"]
         [] r = "non2xx" ->
              [panel EXCEPT !.pending.cleanup = @ - 1,
                            !.error = "Failed to cleanup orchestration"]
         [] OTHER ->
              [panel EXCEPT !.pending.cleanup = @ - 1,
                            !.error = "Error cleaning up orchestration"]
  /\ UNCHANGED <<messageList, isLoadingChatHistory, isResponding, isOrchestrationMode,
                 orchestrationInitialized, showAgentThinking, isPollingThinking,
                 agentThinkingInterval, timers, chatContext, send, statusFetches,
                 written, agentThinkingMessages, polls, preprocessArgs,
                 preprocessResult>>

\* ------------------------------------------------ preprocessContent alone
Contents ==
  {[i \in 1..n |-> IF i % 3 = 1 THEN "x" ELSE IF i % 3 = 2 THEN "y" ELSE "z"] :
     n \in 0..MaxContent}

\* Annotations of any range, in range or not, labelled by file name or by text.
Annotations ==
  [file_name : {<<>>, <<"f">>}, text : {<<"t">>},
   start_index : 0..MaxContent, end_index : 0..MaxContent]

AnnotationLists ==
  UNION {[1..n -> Annotations] : n \in 0..MaxAnnotations}

InitPreprocess ==
  /\ InitSession
  /\ preprocessArgs \in [content : Contents, annotations : AnnotationLists]

\* One call of preprocessContent with the arguments drawn.  An absent
\* annotation list and an empty one are both <<>>: neither changes the content.
callPreprocessContent ==
  /\ ~preprocessResult.returned
  /\ preprocessResult' =
       [returned |-> TRUE,
        value |-> preprocessContent(preprocessArgs.content, preprocessArgs.annotations)]
  /\ UNCHANGED <<messageList, isLoadingChatHistory, isResponding, isOrchestrationMode,
                 orchestrationInitialized, showAgentThinking, isPollingThinking,
                 agentThinkingInterval, timers, chatContext, send, statusFetches,
                 written, agentThinkingMessages, polls, preprocessArgs, panel>>

\* ---------------------------------------------------------- specifications
\* The session as a whole: two calls of onSend that may overlap, the settings
\* panel and the poller.  The server holds no history and writes these lines,
\* and each read hands over all the bytes that are waiting.
CoreWrites == {Line(p) : p \in {"Da", "End", "Ee", "E0"}}
CoreHistories == {<<>>}

Next ==
  \/ \E h \in CoreHistories : loadChatHistory(TRUE, h)
  \/ \E s \in Sends : OnSend(s)
  \/ \E s \in Sends, r \in StatusResponses : OnSendStatus(s, r)
  \/ \E s \in Sends, r \in StreamResponses \cup OrchestrationResponses : OnSendResponse(s, r)
  \/ \E s \in Sends, bytes \in CoreWrites : ServerWrite(s, bytes, MaxSessionRecords, FALSE)
  \/ \E s \in Sends : ReadChunk(s, Len(send[s].wire))
  \/ \E s \in Sends : ReadDone(s)
  \/ \E s \in Sends : ReadError(s)
  \/ \E enabled \in BOOLEAN : handleOrchestrationModeChange(enabled)
  \/ \E r \in StatusResponses : fetchOrchestrationStatus(r)
  \/ \E enabled \in BOOLEAN : handleShowAgentThinkingChange(enabled)
  \/ handleInitializeOrchestration(TRUE)
  \/ handleCleanupOrchestration(TRUE)

Spec == Init /\ [][Next]_vars

\* The decoder by itself: one call of onSend with the settings untouched, the
\* server writing any of StreamWrites, the bytes split into chunks in every way.
NextStream ==
  \/ \E ok \in BOOLEAN, h \in Histories : loadChatHistory(ok, h)
  \/ OnSend(1)
  \/ \E r \in StreamResponses : OnSendResponse(1, r)
  \/ \E bytes \in StreamWrites : ServerWrite(1, bytes, MaxRecords, TRUE)
  \/ \E k \in 1..(5 * MaxRecords) : ReadChunk(1, k)
  \/ ReadDone(1)
  \/ ReadError(1)

SpecStream == Init /\ [][NextStream]_vars

\* The decoder and the New Chat button: one call of onSend, its stream, and
\* newThread at any moment.
NextThread ==
  \/ \E ok \in BOOLEAN, h \in Histories : loadChatHistory(ok, h)
  \/ OnSend(1)
  \/ \E r \in StreamResponses : OnSendResponse(1, r)
  \/ \E bytes \in StreamWrites : ServerWrite(1, bytes, MaxRecords, TRUE)
  \/ \E k \in 1..(5 * MaxRecords) : ReadChunk(1, k)
  \/ ReadDone(1)
  \/ ReadError(1)
  \/ newThread

SpecThread == Init /\ [][NextThread]_vars

\* The poller at work: the sends, the settings panel, the timers' ticks and
\* the answers to the polls.  The POST of a send is answered only when it went
\* to /orchestration/chat.
NextPoller ==
  \/ \E h \in CoreHistories : loadChatHistory(TRUE, h)
  \/ \E s \in Sends : OnSend(s)
  \/ \E s \in Sends, r \in StatusResponses : OnSendStatus(s, r)
  \/ \E s \in Sends, r \in OrchestrationResponses : OnSendResponse(s, r)
  \/ \E enabled \in BOOLEAN : handleOrchestrationModeChange(enabled)
  \/ \E r \in StatusResponses : fetchOrchestrationStatus(r)
  \/ \E enabled \in BOOLEAN : handleShowAgentThinkingChange(enabled)
  \/ handleInitializeOrchestration(TRUE)
  \/ handleCleanupOrchestration(TRUE)
  \/ \E t \in Sends : pollInterval(t)
  \/ \E r \in PollResponses : fetchAgentThinking(r)

SpecPoller == Init /\ [][NextPoller]_vars

\* preprocessContent as a function of its arguments.
NextPreprocess == callPreprocessContent

SpecPreprocess == InitPreprocess /\ [][NextPreprocess]_vars

\* OrchestrationPanel alone.
NextPanel ==
  \/ \E checked \in BOOLEAN : setIsOrchestrationMode(checked)
  \/ \E r \in PanelStatusResponses : checkOrchestrationStatus(r)
  \/ \E value \in AgentIdTexts : setAgentIds(value)
  \/ \E value \in MessageTexts : setMessage(value)
  \/ initializeOrchestration
  \/ \E r \in PanelStatusResponses : initializeOrchestrationResponse(r)
  \/ processOrchestrationQuery
  \/ \E r \in PanelResponses : processOrchestrationQueryResponse(r)
  \/ cleanupOrchestration
  \/ \E r \in PanelResponses : cleanupOrchestrationResponse(r)

SpecPanel == Init /\ [][NextPanel]_vars

\* ------------------------------------------------------------------ claims
Deltas == {"Da", "Db"}
Completed == {"Cc", "Cx"}
Errors == {"Ee", "E0"}

\* The text a content-bearing payload shows by itself, read off the payload
\* texts: {"content":"a"}, {"content":"b"}, completed "c", and completed "xy"
\* whose range [1, 2) is the citation of file f.
Shown(tok) ==
  CASE tok = "Da" -> <<"a">>
    [] tok = "Db" -> <<"b">>
    [] tok = "Cc" -> <<"c">>
    [] tok = "Cx" -> <<"x", "[", "f", "]">>
    [] OTHER -> <<>>

RECURSIVE Cat(_)
Cat(toks) == IF toks = <<>> THEN <<>> ELSE Shown(Head(toks)) \o Cat(Tail(toks))

LastTurn == messageList[Len(messageList)]

\* C1: when delta events are followed by one completed_message event with
\* content "c" and no annotations, the assistant turn of that stream shows
\* exactly "c": it is the last turn, and nothing of the deltas is kept.
C1_CompletedMessageReplaces ==
  \A s \in Sends :
    LET h == send[s].handled
    IN (/\ h # <<>>
        /\ h[Len(h)] = "Cc"
        /\ \A i \in 1..(Len(h) - 1) : h[i] \in Deltas)
       => /\ messageList # <<>>
          /\ LastTurn.id = AsstId(s)
          /\ \A i \in DOMAIN messageList :
               messageList[i].id = AsstId(s) => messageList[i].content = <<"c">>

C1_Witness ==
  \E s \in Sends :
    /\ send[s].handled = <<"Da", "Db", "Cc">>
    /\ LastTurn.id = AsstId(s)
    /\ LastTurn.content = <<"c">>

\* C2: while a stream has carried only delta events d1..dk, and when
\* stream_end follows them, the transcript is the transcript from before the
\* send, the user turn, and one assistant turn whose content is d1..dk
\* concatenated in wire order.
C2_DeltasConcatenateInOrder ==
  \A s \in Sends :
    LET h == send[s].handled
        n == IF h # <<>> /\ h[Len(h)] = "End" THEN Len(h) - 1 ELSE Len(h)
        b == Len(send[s].before)
    IN (n >= 1 /\ \A i \in 1..n : h[i] \in Deltas)
       => /\ Len(messageList) = b + 2
          /\ SubSeq(messageList, 1, b) = send[s].before
          /\ messageList[b + 1].id = UserId(s)
          /\ messageList[b + 1].role = "user"
          /\ messageList[b + 1].content = Message
          /\ messageList[b + 2].id = AsstId(s)
          /\ messageList[b + 2].content = Cat(SubSeq(h, 1, n))

C2_Witness ==
  \E s \in Sends :
    /\ send[s].pc = "done"
    /\ send[s].handled = <<"Da", "Db", "End">>
    /\ send[s].before # <<>>
    /\ LastTurn.content = <<"a", "b">>

\* C3 (as claimed): once stream_end has been handled the decoder handles no
\* further record of that stream.
C3_StreamEndIsTerminal ==
  \A s \in Sends :
    \A i \in 1..Len(send[s].handled) :
      send[s].handled[i] = "End" => i = Len(send[s].handled)

\* C9: when the server has written a completed_message line, a line whose
\* payload is not JSON and a second completed_message line, and all of it has
\* been read, the last turn is the stream's and shows the second message.
C9_MalformedRecordIsSkipped ==
  \A s \in Sends :
    \A c1, c2 \in Completed :
      (/\ send[s].pc \in {"stream", "done"}
       /\ send[s].sent = <<Line(c1), Line("Bad"), Line(c2)>>
       /\ send[s].wire = <<>>)
      => /\ messageList # <<>>
         /\ LastTurn.id = AsstId(s)
         /\ LastTurn.content = Shown(c2)

C9_Witness ==
  \E s \in Sends :
    /\ send[s].sent = <<Line("Cc"), Line("Bad"), Line("Cx")>>
    /\ send[s].handled = <<"Cc", "Bad", "Cx">>
    /\ LastTurn.content = <<"x", "[", "f", "]">>

\* A stream's assistant turn that is still receiving updates.
OpenTurn(s) == send[s].pc = "stream" /\ send[s].chatItem /\ send[s].isStreaming

\* C4 (as claimed): when the POST of an orchestrated send settles while the
\* poller that send started is running and its handle is the stored one, the
\* poller's timer is gone afterwards, whatever the outcome.
C4_PollerStoppedWhenRequestSettles ==
  [][\A s \in Sends :
       \A r \in OrchestrationResponses :
         (/\ OnSendResponse(s, r)
          /\ send[s].useOrchestration
          /\ s \in timers
          /\ agentThinkingInterval = s)
         => s \notin timers']_vars

\* C5 (as claimed): when the POST of a send answers non-2xx or the fetch
\* throws, the transcript grows by one turn that is not a user turn.
C5_TransportFailureAddsErrorTurn ==
  [][\A s \in Sends :
       \A r \in {"non2xx", "throw"} :
         OnSendResponse(s, r)
         => /\ Len(messageList') = Len(messageList) + 1
            /\ messageList'[Len(messageList')].role # "user"]_vars

\* C6 (as claimed): at most one assistant turn is open at any moment.
C6_AtMostOneOpenAssistantTurn ==
  Cardinality({s \in Sends : OpenTurn(s)}) <= 1

\* C7 (as claimed): a send issued while some stream's assistant turn is open
\* adds no user turn to the transcript.
C7_NoUserTurnWhileTurnOpen ==
  [][\A s \in Sends :
       (OnSend(s) /\ \E t \in Sends : OpenTurn(t))
       => \A i \in DOMAIN messageList' : messageList'[i].id # UserId(s)]_vars

\* C8: a read in which the decoder of send s handles an error event leaves
\* that event the last record handled and ends the stream for good; the last
\* turn is the stream's (one turn more than before exactly when the stream
\* had none) and shows the error's message, or the generic text when there is
\* none, and nothing else; the responding flag is off and the poller stopped
\* with its timer cleared.
C8_ErrorEventEndsStream ==
  [][\A s \in Sends :
       LET h == send[s].handled
           h2 == send'[s].handled
       IN /\ (/\ send[s].pc = "stream"
              /\ Len(h2) > Len(h)
              /\ \E i \in (Len(h) + 1)..Len(h2) : h2[i] \in Errors)
             => /\ h2[Len(h2)] \in Errors
                /\ \A i \in (Len(h) + 1)..(Len(h2) - 1) : h2[i] \notin Errors
                /\ send'[s].pc = "done"
                /\ Len(messageList') =
                     Len(messageList) + (IF send[s].chatItem THEN 0 ELSE 1)
                /\ messageList'[Len(messageList')].id = AsstId(s)
                /\ messageList'[Len(messageList')].content =
                     (IF h2[Len(h2)] = "Ee" THEN <<"e">> ELSE GenericError)
                /\ ~isResponding'
                /\ ~isPollingThinking'
                /\ agentThinkingInterval' = 0
                /\ agentThinkingInterval \notin timers'
          /\ send[s].pc = "done" => send'[s] = send[s]]_vars

C8_Witness ==
  \E s, t \in Sends :
    /\ send[s].pc = "done"
    /\ send[s].handled = <<"Da", "Ee">>
    /\ LastTurn.id = AsstId(s)
    /\ LastTurn.content = <<"e">>
    /\ ~isResponding
    /\ send[t].pc = "post"
    /\ send[t].useOrchestration
    /\ showAgentThinking
    /\ ~isPollingThinking
    /\ timers = {}

C11_StaleCacheFallsBackToChat ==
  [][\A s \in Sends :
       \A r \in OrchestrationResponses \ {"success", "throw"} :
         (/\ OnSendResponse(s, r)
          /\ send[s].useOrchestration
          /\ send[s].requests = <<"POST /orchestration/chat">>)
         => /\ messageList' = messageList
            /\ send'[s].pc = "post"
            /\ send'[s].requests = <<"POST /orchestration/chat", "POST /chat">>]_vars

\* C12 (as claimed): when no poller is running (the flag is off, the handle
\* is empty and no timer is left), the answer to a poll that was still under
\* way leaves the thinking messages as they are.
C12_LatePollResultDiscarded ==
  [][\A r \in PollResponses :
       (/\ fetchAgentThinking(r)
        /\ ~isPollingThinking
        /\ agentThinkingInterval = 0
        /\ timers = {})
       => agentThinkingMessages' = agentThinkingMessages]_vars

\* C13 (as claimed): at most one interval timer is running at any moment.
C13_AtMostOnePollerTimer == Cardinality(timers) <= 1

\* C14: stopAgentThinkingPolling leaves the flag off and the handle empty and
\* touches neither the transcript nor the responding flag; a second call
\* changes nothing more, and a call while the flag is off and the handle is
\* empty changes nothing at all.
C14_StopPollingIsIdempotent ==
  LET once == stopAgentThinkingPolling(Ui)
  IN /\ ~once.isPollingThinking
     /\ once.agentThinkingInterval = 0
     /\ once.ml = messageList
     /\ once.isResponding = isResponding
     /\ stopAgentThinkingPolling(once) = once
     /\ (~isPollingThinking /\ agentThinkingInterval = 0) => once = Ui

\* An orchestrated send with no poller has just been answered, so that
\* stopRespondingAndPolling ran with nothing to stop.
C14_Witness ==
  /\ messageList # <<>>
  /\ LastTurn.id.kind = "orchestration"
  /\ ~isPollingThinking
  /\ agentThinkingInterval = 0
  /\ timers = {}
  /\ stopAgentThinkingPolling(Ui) = Ui

C16_ModeChangeClearsOrRevalidates ==
  [][/\ (isOrchestrationMode /\ ~isOrchestrationMode')
        => ~orchestrationInitialized'
     /\ (~isOrchestrationMode /\ isOrchestrationMode')
        => /\ statusFetches' >= statusFetches + 1
           /\ orchestrationInitialized' = orchestrationInitialized]_vars

\* The mode was turned off while the flag was on: onSend's closure still
\* holds both, and the flag is off.
C16_Witness ==
  /\ ~isOrchestrationMode
  /\ ~orchestrationInitialized
  /\ chatContext.isOrchestrationMode
  /\ chatContext.orchestrationInitialized

\* The label shown for an annotation.
Label(a) == IF a.file_name # <<>> THEN <<"[">> \o a.file_name \o <<"]">> ELSE a.text

\* Every range lies within the content and ends where the next begins or before.
InOrderAndDisjoint(text, anns) ==
  /\ \A i \in DOMAIN anns :
       0 <= anns[i].start_index /\ anns[i].start_index <= anns[i].end_index
         /\ anns[i].end_index <= Len(text)
  /\ \A i, j \in DOMAIN anns : i < j => anns[i].end_index <= anns[j].start_index

\* The text read left to right from 0-based position pos on, every range
\* replaced by its label.
RECURSIVE Rewritten(_, _, _)
Rewritten(text, anns, pos) ==
  IF anns = <<>> THEN SubSeq(text, pos + 1, Len(text))
  ELSE SubSeq(text, pos + 1, Head(anns).start_index) \o Label(Head(anns))
         \o Rewritten(text, Tail(anns), Head(anns).end_index)

\* C17: preprocessContent returns the content itself when there is no
\* annotation, and for in-range annotations given in ascending order with
\* disjoint ranges it returns the content with every range replaced by its
\* label and every other character kept in place.
C17_PreprocessContentRewritesRanges ==
  preprocessResult.returned
  => /\ preprocessArgs.annotations = <<>>
          => preprocessResult.value = preprocessArgs.content
     /\ InOrderAndDisjoint(preprocessArgs.content, preprocessArgs.annotations)
          => preprocessResult.value =
               Rewritten(preprocessArgs.content, preprocessArgs.annotations, 0)

C17_Witness ==
  /\ preprocessResult.returned
  /\ preprocessArgs.content = <<"x", "y", "z">>
  /\ preprocessArgs.annotations =
       <<[file_name |-> <<"f">>, text |-> <<"t">>, start_index |-> 0, end_index |-> 1],
         [file_name |-> <<>>, text |-> <<"t">>, start_index |-> 2, end_index |-> 3]>>
  /\ preprocessResult.value = <<"[", "f", "]", "y", "t">>

\* C18: when the POST of a send to /orchestration/chat is answered 2xx, the
\* transcript grows by exactly one assistant turn at its end: the result for a
\* success body with a result, else the body's error field, else the generic
\* orchestration error text.
C18_OrchestrationAnswerAddsOneTurn ==
  [][\A s \in Sends :
       \A r \in {"success", "error", "noerror"} :
         (OnSendResponse(s, r) /\ send[s].useOrchestration)
         => /\ Len(messageList') = Len(messageList) + 1
            /\ SubSeq(messageList', 1, Len(messageList)) = messageList
            /\ messageList'[Len(messageList')].role = "assistant"
            /\ messageList'[Len(messageList')].content =
                 (CASE r = "success" -> <<"r">>
                    [] r = "error" -> <<"e">>
                    [] r = "noerror" -> <<"An error occurred during orchestration">>)]_vars

C18_Witness ==
  \E s \in Sends :
    /\ send[s].pc = "done"
    /\ LastTurn.id = OrchId(s)
    /\ LastTurn.role = "assistant"
    /\ LastTurn.content = <<"An error occurred during orchestration">>
    /\ messageList[Len(messageList) - 1].id = UserId(s)

\* C19: a successful load of a history h, which the server gives newest
\* first, puts h's entries in reverse order in front of the turns the
\* transcript already had, each with its role, a user entry with its content
\* and any other entry with its content rewritten by its annotations.
C19_HistoryIsReversed ==
  [][\A h \in Histories :
       loadChatHistory(TRUE, h)
       => /\ Len(messageList') = Len(h) + Len(messageList)
          /\ SubSeq(messageList', Len(h) + 1, Len(messageList')) = messageList
          /\ \A i \in 1..Len(h) :
               LET entry == h[Len(h) + 1 - i]
               IN IF entry.role = "user"
                    THEN /\ messageList'[i].role = "user"
                         /\ messageList'[i].content = entry.content
                    ELSE /\ messageList'[i].role = "assistant"
                         /\ messageList'[i].content =
                              Rewritten(entry.content, entry.annotations, 0)]_vars

C19_Witness ==
  /\ ~isLoadingChatHistory
  /\ Len(messageList) = 2
  /\ messageList[1].role = "user"
  /\ messageList[1].content = <<"h">>
  /\ messageList[2].role = "assistant"
  /\ messageList[2].content = <<"t", "y">>

\* C20 (as claimed): a read in which the decoder of send s handles records
\* leaves every turn that is not that stream's assistant turn in its place
\* with its content.
C20_StreamUpdateTouchesOnlyItsTurn ==
  [][\A s \in Sends :
       (/\ send[s].pc = "stream"
        /\ Len(send'[s].handled) > Len(send[s].handled))
       => \A i \in DOMAIN messageList :
            messageList[i].id # AsstId(s)
            => /\ i <= Len(messageList')
               /\ messageList'[i] = messageList[i]]_vars

\* C21 (as claimed): the assistant turn that a stream has created and that is
\* no longer in the transcript, newThread having cleared it, is not put into
\* the transcript again.
C21_ClearedTurnStaysCleared ==
  [][\A s \in Sends :
       (/\ send[s].chatItem
        /\ \A i \in DOMAIN messageList : messageList[i].id # AsstId(s))
       => \A i \in DOMAIN messageList' : messageList'[i].id # AsstId(s)]_vars

\* The chat POSTs among the requests of a send.
ChatPosts(requests) ==
  Cardinality({i \in DOMAIN requests :
                 requests[i] \in {"POST /chat", "POST /orchestration/chat"}})

\* C22: a send goes from its start, through the status check or not, to one
\* dispatch that issues exactly one chat POST; from then on, whatever the
\* answer, it issues no request at all and never comes back to a dispatch.
C22_OneChatPostPerSend ==
  [][\A s \in Sends :
       /\ send[s].pc = "idle" => send'[s].pc \in {"idle", "status", "post"}
       /\ send[s].pc = "status" => send'[s].pc \in {"status", "post"}
       /\ send'[s].pc = "status" => ChatPosts(send'[s].requests) = 0
       /\ (send[s].pc \in {"idle", "status"} /\ send'[s].pc = "post")
          => /\ ChatPosts(send'[s].requests) = 1
             /\ send'[s].requests[Len(send'[s].requests)]
                  \in {"POST /chat", "POST /orchestration/chat"}
       /\ send[s].pc = "post"
          => \/ send'[s] = send[s]
             \/ send'[s].pc \in {"stream", "done"} /\ send'[s].requests = <<>>
       /\ send[s].pc \in {"stream", "done"}
          => send'[s].pc \in {"stream", "done"} /\ send'[s].requests = <<>>]_vars

\* The POST of the first send was answered non-2xx and nothing followed.
C22_Witness ==
  /\ send[1].pc = "done"
  /\ send[2].pc = "idle"
  /\ isResponding
  /\ LastTurn.id = UserId(1)

\* C23: when the reader reports the end of the stream (every byte written has
\* been read, so no terminal event stopped the loop before), the read loop
\* exits and the transcript is left as it was: no error turn is added and no
\* turn changes its content.
C23_EndOfStreamIsSilent ==
  [][\A s \in Sends :
       (/\ send[s].pc = "stream"
        /\ send[s].wire = <<>>
        /\ send'[s].pc = "done")
       => messageList' = messageList]_vars

\* A stream that carried one delta was closed by the transport.
C23_Witness ==
  \E s \in Sends :
    /\ send[s].pc = "done"
    /\ send[s].sent = <<Line("Da")>>
    /\ send[s].handled = <<"Da">>
    /\ LastTurn.id = AsstId(s)
    /\ LastTurn.content = <<"a">>

\* The payloads the decoder of send s handles in the step.
NewlyHandled(s) ==
  IF Len(send'[s].handled) >= Len(send[s].handled)
    THEN {send'[s].handled[i] : i \in (Len(send[s].handled) + 1)..Len(send'[s].handled)}
    ELSE {}

\* C24: a read of the stream in which the decoder handles nothing but
\* thread_run and stream_end events (lines without the `data: ` prefix are
\* dropped and count for nothing) leaves the transcript as it was: no
\* assistant turn is created and no turn changes its content.
C24_NonContentRecordsKeepTranscript ==
  [][\A s \in Sends :
       (/\ send[s].pc = "stream"
        /\ send[s].wire # <<>>
        /\ send'[s].pc = "done" \/ Len(send'[s].wire) < Len(send[s].wire)
        /\ NewlyHandled(s) \subseteq {"Run", "End"})
       => messageList' = messageList]_vars

\* A line without the prefix, a thread_run and a stream_end were read, and the
\* user turn is still the last one.
C24_Witness ==
  \E s \in Sends :
    /\ send[s].sent = <<(<<"Da", "NL">>), Line("Run"), Line("End")>>
    /\ send[s].wire = <<>>
    /\ send[s].handled = <<"Run", "End">>
    /\ ~send[s].chatItem
    /\ messageList = Append(send[s].before, Turn(UserId(s), "user", Message, 0))

\* C25: a poll tick, from the timer firing to its answer, changes neither the
\* transcript nor the responding flag nor the mode nor the cached
\* initialization flag; and when the answer is a non-success body, a non-2xx
\* response or a thrown error, the thinking-messages slot keeps its value too.
C25_PollerWritesOnlyItsSlot ==
  [][/\ polls' # polls
        => UNCHANGED <<messageList, isResponding, isOrchestrationMode,
                       orchestrationInitialized>>
     /\ \A r \in {"notsuccess", "non2xx", "throw"} :
          fetchAgentThinking(r) => agentThinkingMessages' = agentThinkingMessages]_vars

\* Polls have filled the slot and none is outstanding, in an initialized
\* orchestration session with turns in the transcript.
C25_Witness ==
  /\ agentThinkingMessages = <<"m", "n">>
  /\ polls = 0
  /\ messageList # <<>>
  /\ isOrchestrationMode
  /\ orchestrationInitialized

\* C26 (as claimed): whatever the stream carries, no update made for a delta
\* event requests a scroll.
C26_DeltaNeverScrolls ==
  \A s \in Sends :
    \A i \in send[s].scrolls : send[s].handled[i] \notin Deltas

\* What preprocessContent returned is the content with the range of its only
\* annotation a replaced by label, for a range that lies within the content.
OneRangeShows(a, label) ==
  (/\ preprocessResult.returned
   /\ preprocessArgs.annotations = <<a>>
   /\ 0 <= a.start_index /\ a.start_index <= a.end_index
   /\ a.end_index <= Len(preprocessArgs.content))
  => preprocessResult.value =
       SubSeq(preprocessArgs.content, 1, a.start_index) \o label
         \o SubSeq(preprocessArgs.content, a.end_index + 1, Len(preprocessArgs.content))

\* C27 (as claimed): the label written in place of an annotated range is the
\* annotation's file name when it has one and the annotation's text otherwise.
C27_LabelIsFileNameOrText ==
  \A a \in Annotations :
    OneRangeShows(a, IF a.file_name # <<>> THEN a.file_name ELSE a.text)

\* C27 (amended): the label written in place of an annotated range is the
\* annotation's file name wrapped in square brackets when it has a non-empty
\* one and the annotation's text, as it is, otherwise.
C27_LabelIsBracketedFileNameOrText ==
  \A a \in Annotations :
    OneRangeShows(a, IF a.file_name # <<>>
                       THEN <<"[">> \o a.file_name \o <<"]">>
                       ELSE a.text)

C27_Witness ==
  /\ preprocessResult.returned
  /\ preprocessArgs.content = <<"x", "y", "z">>
  /\ preprocessArgs.annotations =
       <<[file_name |-> <<"f">>, text |-> <<"t">>, start_index |-> 1, end_index |-> 2]>>
  /\ preprocessResult.value = <<"x", "[", "f", "]", "z">>

\* C28: in OrchestrationPanel a POST to /orchestration/chat is sent only with a
\* message that is not empty after trimming and while the stored status is
\* 'initialized'; a call of processOrchestrationQuery that sends nothing sets an
\* error; a successful cleanup leaves no stored status, so that no query is
\* sent before an initialize or a status check has stored 'initialized' again.
C28_PanelQueryOnlyWhenInitialized ==
  [][/\ panel'.pending.chat > panel.pending.chat
          => /\ Trim(panel.message) # <<>>
             /\ panel.orchestrationStatus = "initialized"
     /\ (processOrchestrationQuery /\ panel'.pending.chat = panel.pending.chat)
          => /\ panel'.error # ""
             /\ panel'.issued = panel.issued
     /\ cleanupOrchestrationResponse("ok") => panel'.orchestrationStatus = "null"
     /\ (panel.orchestrationStatus = "null" /\ panel'.orchestrationStatus = "initialized")
          => \/ panel'.pending.status < panel.pending.status
             \/ panel'.pending.initialize < panel.pending.initialize]_vars

\* A query was sent and answered, then a cleanup succeeded: no status is
\* stored, the message is still in the input and nothing is in flight.
C28_Witness ==
  /\ panel.orchestrationStatus = "null"
  /\ panel.success = "Orchestration resources cleaned up successfully"
  /\ panel.message = <<"q">>
  /\ panel.issued = 3
  /\ panel.pending = NoPanel.pending

\* The bytes of the writes, one after the other.
RECURSIVE AllBytes(_)
AllBytes(writes) ==
  IF writes = <<>> THEN <<>> ELSE Head(writes) \o AllBytes(Tail(writes))

\* What the decoder of send s makes of everything the server wrote when it
\* comes in one chunk, the end of the stream after it.
OneChunk(s) ==
  ProcessBuffer(s,
    [ml |-> Append(send[s].before, Turn(UserId(s), "user", Message, 0)),
     isResponding |-> TRUE, isPollingThinking |-> isPollingThinking,
     agentThinkingInterval |-> agentThinkingInterval, timers |-> timers,
     buffer |-> AllBytes(send[s].sent),
     chatItem |-> FALSE, accumulatedContent |-> <<>>, isStreaming |-> TRUE,
     annotations |-> <<>>, handled |-> <<>>, scrolls |-> {},
     setMessageListRan |-> FALSE, exit |-> "next"])

\* C29 (as claimed): when a stream has ended, by the end of the transport or
\* by an error event, the transcript and the responding flag are the ones that
\* the same bytes give when they come in one chunk, however they were split.
C29_ChunkingDoesNotMatter ==
  \A s \in Sends :
    (send[s].pc = "done" /\ send[s].sent # <<>>)
    => /\ messageList = OneChunk(s).ml
       /\ isResponding = OneChunk(s).isResponding

\* C30 (as claimed): the session is not 'responding' when no request of a send
\* is outstanding: every send is either not made yet or settled.
C30_NotRespondingWhenNothingOutstanding ==
  (\A s \in Sends : send[s].pc \in {"idle", "done"}) => ~isResponding

\* C31 (as claimed): whenever orchestration mode is off the cached
\* orchestrationInitialized flag is false.
C31_ModeOffImpliesNotInitialized ==
  ~isOrchestrationMode => ~orchestrationInitialized

\* C32: the cached orchestrationInitialized flag goes from false to true only
\* in a step that processes an answer to GET /orchestration/status saying
\* status success and orchestration_info.status 'initialized', be it the answer
\* to fetchOrchestrationStatus or to the status check of onSend; a successful
\* POST /orchestration/initialize leaves the flag as it is.
C32_FlagSetOnlyByStatusAnswer ==
  [][/\ (~orchestrationInitialized /\ orchestrationInitialized')
          => \/ fetchOrchestrationStatus("initialized")
             \/ \E s \in Sends : OnSendStatus(s, "initialized")
     /\ handleInitializeOrchestration(TRUE)
          => orchestrationInitialized' = orchestrationInitialized]_vars

\* The flag is on in orchestration mode and no send was made: an answer to
\* fetchOrchestrationStatus has set it.
C32_Witness ==
  /\ isOrchestrationMode
  /\ orchestrationInitialized
  /\ \A s \in Sends : send[s].pc = "idle"

\* The payloads of the `data: ` lines of bytes, in order: a line is what a
\* newline ends, and what follows the last newline is no line.
RECURSIVE RecordsOf(_)
RecordsOf(bytes) ==
  LET nl == IndexOfNL(bytes)
  IN IF nl = 0 THEN <<>>
     ELSE LET line == Trim(SubSeq(bytes, 1, nl - 1))
          IN (IF line # <<>> /\ Head(line) = "P" THEN <<PayloadOf(line)>> ELSE <<>>)
               \o RecordsOf(SubSeq(bytes, nl + 1, Len(bytes)))

\* The bytes of the stream of send s that a read has returned.
Consumed(s) ==
  LET all == AllBytes(send[s].sent)
  IN SubSeq(all, 1, Len(all) - Len(send[s].wire))

IsPrefix(a, b) == Len(a) <= Len(b) /\ a = SubSeq(b, 1, Len(a))

\* Every record the decoder of send s has parsed is a line of the bytes read
\* so far, newline included.
ParsedAfterNewline(s) ==
  /\ send[s].pc = "stream" => IsPrefix(send[s].handled, RecordsOf(Consumed(s)))
  /\ (send[s].pc = "done" /\ send[s].sent # <<>>)
       => IsPrefix(send[s].handled, RecordsOf(AllBytes(send[s].sent)))

\* C33: the records parsed are, in order, `data: ` lines whose newline has been
\* read; and when the transport reports the end of the stream while text is
\* left in the decode buffer, nothing is parsed and the transcript is left as
\* it was.
C33_BufferTailIsNeverParsed ==
  /\ [](\A s \in Sends : ParsedAfterNewline(s))
  /\ [][\A s \in Sends :
          (/\ send[s].pc = "stream"
           /\ send[s].wire = <<>>
           /\ send[s].buffer # <<>>
           /\ send'[s].pc = "done"
           /\ send'[s].sent = send[s].sent)
          => /\ send'[s].handled = send[s].handled
             /\ messageList' = messageList]_vars

\* A delta line and a record without its newline were read, then the stream
\* ended: one record was parsed and the transcript shows the one delta.
C33_Witness ==
  \E s \in Sends :
    /\ send[s].pc = "done"
    /\ send[s].sent = <<Line("Da"), (<<"P", "Da">>)>>
    /\ send[s].handled = <<"Da">>
    /\ Len(messageList) = Len(send[s].before) + 2
    /\ LastTurn.content = <<"a">>

====
